---- MODULE Spec2Model ----
(***************************************************************************)
(* Module lifecycle engine of ai-mcp-server (src/server.py).               *)
(*                                                                         *)
(* GraphSource is the reasoned ontology `g`: the list of :Module           *)
(* instances and the :dependsOnModule triples.  It is loaded once, before  *)
(* the first request, and never changes.  StatusStore is the SQLite table  *)
(* `modules` (module_name PRIMARY KEY, status).  Each MCP tools/call       *)
(* handler is one action; the handler body runs without an await, so a     *)
(* handler is one step of the server process.                              *)
(***************************************************************************)
EXTENDS Integers, Sequences, FiniteSets, TLC

\* Bounds of the model.
MaxDeps == 2        \* dependency triples of one subject
MaxEdges == 2       \* dependency triples of the ontology in total
MaxStoreEdges == 1  \* the same, where only the StatusStore is examined
MaxDiagnosisEdges == 3  \* the same, where the diagnosis is examined
MaxConcurrentWrites == 2  \* writes of other processes during one read call

\* Module identifiers (local names after '#').  IdOrder is their
\* lexicographic (Python str) order, which sorted() uses.
IdOrder == <<"A", "B", "C">>
Ids == {IdOrder[i] : i \in 1..Len(IdOrder)}
Rank(id) == CHOOSE i \in 1..Len(IdOrder) : IdOrder[i] = id

\* Python None: get_db_status of an id that has no row.
None == "None"
\* Status values a caller sends; "archived" stands for any value outside
\* the enum of the tool's inputSchema, "" for a missing or empty argument.
Canonical == {"pending", "inProgress", "completed"}
StatusArgs == Canonical \cup {"archived"}
\* The arguments of an update_module_status call: every id with every
\* status, and calls with the module or the status missing.
MissingArgs == {<<"", "pending">>, <<"A", "">>, <<"", "">>}
UpdateArgs == (Ids \X StatusArgs) \cup MissingArgs
\* The calls of a client that keeps to the enum of the inputSchema.
CanonicalArgs == (Ids \X Canonical) \cup MissingArgs

VARIABLES
    modules,    \* g.subjects(RDF.type, BASE.Module), in enumeration order
    deps,       \* deps[m]: objects of (m, dependsOnModule, ?), in order
    db,         \* table modules: db[m] is the status of m's row, None if no row
    result,     \* the response of the last tools/call
    call        \* a read call that runs while other processes write: its
                \* position, its local variables and the store states it spans

vars == <<modules, deps, db, result, call>>

----------------------------------------------------------------------------
\* Helpers on sequences.
Range(s) == {s[i] : i \in 1..Len(s)}
NoDupSeqs(S, n) ==
    UNION {{s \in [1..k -> S] : \A i, j \in 1..k : i # j => s[i] # s[j]} : k \in 0..n}
RECURSIVE SumLen(_, _)
SumLen(f, S) ==
    IF S = {} THEN 0
    ELSE LET x == CHOOSE y \in S : TRUE IN Len(f[x]) + SumLen(f, S \ {x})

\* Python sorted() on a list of ids: insertion into ascending order.
RECURSIVE sorted(_)
Insert(x, s) ==
    LET lower == SelectSeq(s, LAMBDA y : Rank(y) <= Rank(x))
        upper == SelectSeq(s, LAMBDA y : Rank(y) > Rank(x))
    IN lower \o <<x>> \o upper
sorted(s) == IF s = <<>> THEN <<>> ELSE Insert(Head(s), sorted(Tail(s)))

----------------------------------------------------------------------------
\* DATABASE LAYER
get_db_status(module_name) == db[module_name]

\* Mutant of set_db_status: INSERT OR IGNORE, an existing row keeps its status.
set_db_status_insert_or_ignore(table, module_name, status) ==
    IF table[module_name] = None
    THEN [table EXCEPT ![module_name] = status]
    ELSE table

\* INSERT ... ON CONFLICT(module_name) DO UPDATE SET status=excluded.status
set_db_status(table, module_name, status) ==
    [table EXCEPT ![module_name] = status]

----------------------------------------------------------------------------
\* GRAPH HELPERS
get_all_modules == modules
get_dependencies(module_name) == deps[module_name]

\* Mutant of detect_cycles_graph_get: an edge from a module to itself is dropped.
detect_cycles_graph_get_without_self_edge(node) ==
    IF node \in Range(get_all_modules)
    THEN SelectSeq(get_dependencies(node), LAMBDA d : d # node)
    ELSE <<>>

\* detect_cycles: graph = {m: get_dependencies(m) for m in get_all_modules()};
\* graph.get(node, []) gives no edge to an id that is not a key.
detect_cycles_graph_get(node) ==
    IF node \in Range(get_all_modules) THEN get_dependencies(node) ELSE <<>>

\* dfs(node) with the closure variables visited and stack passed along; the
\* value is [found, visited].  stack is the set of nodes of the current path:
\* a node is removed when dfs returns False, and a True ends the traversal.
RECURSIVE dfs(_, _, _), dfs_neighbors(_, _, _, _)
dfs(node, visited, stack) ==
    IF node \in stack THEN [found |-> TRUE, visited |-> visited]
    ELSE IF node \in visited THEN [found |-> FALSE, visited |-> visited]
    ELSE dfs_neighbors(detect_cycles_graph_get(node), 1,
                       visited \cup {node}, stack \cup {node})
dfs_neighbors(nbrs, i, visited, stack) ==
    IF i > Len(nbrs) THEN [found |-> FALSE, visited |-> visited]
    ELSE LET r == dfs(nbrs[i], visited, stack)
         IN IF r.found THEN r ELSE dfs_neighbors(nbrs, i + 1, r.visited, stack)

\* any(dfs(node) for node in graph): keys in insertion order, first True ends.
RECURSIVE detect_cycles_any(_, _, _)
detect_cycles_any(keys, i, visited) ==
    IF i > Len(keys) THEN FALSE
    ELSE LET r == dfs(keys[i], visited, {})
         IN IF r.found THEN TRUE ELSE detect_cycles_any(keys, i + 1, r.visited)

detect_cycles == detect_cycles_any(get_all_modules, 1, {})

\* Mutant of compute_next_steps: a dependency without a row passes as done.
compute_next_steps_unset_passes ==
    SelectSeq(get_all_modules,
              LAMBDA m : /\ get_db_status(m) = "pending"
                         /\ \A i \in 1..Len(get_dependencies(m)) :
                               get_db_status(get_dependencies(m)[i])
                                   \in {"completed", None})

\* Executable = pending AND all deps completed
compute_next_steps ==
    SelectSeq(get_all_modules,
              LAMBDA m : /\ get_db_status(m) = "pending"
                         /\ \A i \in 1..Len(get_dependencies(m)) :
                               get_db_status(get_dependencies(m)[i]) = "completed")

----------------------------------------------------------------------------
\* OPERATIONAL CRITICAL PATH
\* Mutant of active_modules: completed modules are not left out.
active_modules_with_completed == get_all_modules

active_modules ==
    SelectSeq(get_all_modules, LAMBDA m : get_db_status(m) # "completed")

\* graph[d]: the active dependents m of d, appended in the order of
\* active_modules (an id has each dependency once).
critical_path_graph(d) ==
    SelectSeq(active_modules,
              LAMBDA m : d \in Range(get_dependencies(m)) /\ d \in Range(active_modules))

\* longest(node).  memo[node] is written only when longest(node) returns, so
\* a call for a node whose own call is still open finds no memo entry and
\* recurses again: the recursion never ends and Python raises RecursionError.
\* calls is the set of nodes whose call is open.  A finished call always
\* returns the same pair, with or without the memo table.
NoPath == [err |-> FALSE, ln |-> 0, path |-> <<>>]
RecursionError == [err |-> TRUE, ln |-> 0, path |-> <<>>]
RECURSIVE longest(_, _), longest_best(_, _, _, _)
longest(node, calls) ==
    IF node \in calls THEN RecursionError
    ELSE LET neighbors == critical_path_graph(node)
         IN IF neighbors = <<>>
            THEN [err |-> FALSE, ln |-> 1, path |-> <<node>>]
            ELSE LET b == longest_best(neighbors, 1, NoPath, calls \cup {node})
                 IN IF b.err THEN b
                    ELSE [err |-> FALSE, ln |-> b.ln + 1, path |-> <<node>> \o b.path]
longest_best(ns, i, best, calls) ==
    IF i > Len(ns) THEN best
    ELSE LET r == longest(ns[i], calls)
         IN IF r.err THEN r
            ELSE longest_best(ns, i + 1, IF r.ln > best.ln THEN r ELSE best, calls)

compute_operational_critical_path ==
    LET best == longest_best(active_modules, 1, NoPath, {})
    IN [raised |-> best.err, length |-> best.ln, path |-> best.path]

----------------------------------------------------------------------------
\* LIFECYCLE STATE
evaluate_project_state ==
    IF detect_cycles THEN "blocked_by_cycle"
    ELSE IF /\ get_all_modules # <<>>
            /\ \A m \in Range(get_all_modules) : get_db_status(m) = "completed"
         THEN "completed"
    ELSE IF compute_next_steps # <<>> THEN "active"
    ELSE "stalled"

----------------------------------------------------------------------------
\* DIAGNOSIS ENGINE
unset_name(st) == IF st # None THEN st ELSE "unset"

get_status_snapshot ==
    LET ms == sorted(get_all_modules)
    IN [i \in 1..Len(ms) |->
           [module |-> ms[i], status |-> unset_name(get_db_status(ms[i]))]]

\* A recommendation line: its wording (kind) and the values formatted into it.
Rec(kind) == [kind |-> kind, module |-> "", count |-> 0, status |-> ""]
BlockerRec(mod, st, cnt) ==
    IF st = "unset"
    THEN [kind |-> "set_status", module |-> mod, count |-> 0, status |-> st]
    ELSE [kind |-> "complete_or_adjust", module |-> mod, count |-> cnt, status |-> st]

\* pending = [m for m in modules if get_db_status(m) == "pending"]
diagnose_pending ==
    SelectSeq(get_all_modules, LAMBDA m : get_db_status(m) = "pending")

\* Mutant of diagnose_blockers: a dependency without a row is not a blocker.
diagnose_blockers_skipping_unset(m) ==
    LET ds == SelectSeq(get_dependencies(m),
                        LAMBDA d : get_db_status(d) \notin {"completed", None})
    IN [i \in 1..Len(ds) |->
           [module |-> ds[i], status |-> unset_name(get_db_status(ds[i]))]]

\* blockers of one pending module: its dependencies that are not completed
diagnose_blockers(m) ==
    LET ds == SelectSeq(get_dependencies(m),
                        LAMBDA d : get_db_status(d) # "completed")
    IN [i \in 1..Len(ds) |->
           [module |-> ds[i], status |-> unset_name(get_db_status(ds[i]))]]

\* blocked_info: the pending modules that have a blocker, in order
diagnose_blocked_info ==
    LET ps == SelectSeq(diagnose_pending, LAMBDA m : diagnose_blockers(m) # <<>>)
    IN [i \in 1..Len(ps) |->
           [pending_module |-> ps[i], blocked_by |-> diagnose_blockers(ps[i])]]

\* blocker_counts: a dict keyed by (module, status), in insertion order
RECURSIVE count_blockers(_, _, _)
count_one(counts, key) ==
    IF \E k \in 1..Len(counts) : counts[k].key = key
    THEN [k \in 1..Len(counts) |->
             IF counts[k].key = key
             THEN [key |-> key, cnt |-> counts[k].cnt + 1]
             ELSE counts[k]]
    ELSE Append(counts, [key |-> key, cnt |-> 1])
count_blockers(bs, i, counts) ==
    IF i > Len(bs) THEN counts
    ELSE count_blockers(bs, i + 1, count_one(counts, <<bs[i].module, bs[i].status>>))
RECURSIVE blocker_counts_from(_, _, _)
blocker_counts_from(info, i, counts) ==
    IF i > Len(info) THEN counts
    ELSE blocker_counts_from(info, i + 1, count_blockers(info[i].blocked_by, 1, counts))
blocker_counts == blocker_counts_from(diagnose_blocked_info, 1, <<>>)

\* sorted(items, key=count, reverse=True): stable, equal counts keep their order
RECURSIVE sorted_by_count_desc(_, _, _)
sorted_by_count_desc(items, i, acc) ==
    IF i > Len(items) THEN acc
    ELSE LET x == items[i]
             before == SelectSeq(acc, LAMBDA y : y.cnt >= x.cnt)
             after == SelectSeq(acc, LAMBDA y : y.cnt < x.cnt)
         IN sorted_by_count_desc(items, i + 1, before \o <<x>> \o after)
\* Mutant of top_blockers: the counts are left in the order they were met.
top_blockers_unsorted == blocker_counts

top_blockers == sorted_by_count_desc(blocker_counts, 1, <<>>)

TopBlockersShown == 5
stalled_recommendations ==
    LET top == SubSeq(top_blockers, 1,
                      IF Len(top_blockers) < TopBlockersShown
                      THEN Len(top_blockers) ELSE TopBlockersShown)
        recs == [i \in 1..Len(top) |->
                    BlockerRec(top[i].key[1], top[i].key[2], top[i].cnt)]
    IN IF recs = <<>> THEN <<Rec("review_edges")>> ELSE recs

\* Mutant of Diagnosis: the state is reported as stalled on every branch.
Diagnosis_always_stalled(state, summary, snapshot, ready, blocked, recs) ==
    [state |-> "stalled", summary |-> summary, status_snapshot |-> snapshot,
     ready_modules |-> ready, blocked |-> blocked, recommendations |-> recs]

\* The returned dict; the three early returns carry no "ready_modules" key,
\* which is written here as an empty list.
Diagnosis(state, summary, snapshot, ready, blocked, recs) ==
    [state |-> state, summary |-> summary, status_snapshot |-> snapshot,
     ready_modules |-> ready, blocked |-> blocked, recommendations |-> recs]

diagnose_stall ==
    LET state == evaluate_project_state
        mods == get_all_modules
        unset == SelectSeq(mods, LAMBDA m : get_db_status(m) = None)
    IN IF mods = <<>>
       THEN Diagnosis(state, "No modules found in ontology.", <<>>, <<>>, <<>>,
                      <<Rec("verify_ontology")>>)
       ELSE IF detect_cycles
       THEN Diagnosis("blocked_by_cycle", "Circular dependency detected.",
                      get_status_snapshot, <<>>, <<>>, <<Rec("break_loop")>>)
       ELSE IF diagnose_pending = <<>>
       THEN Diagnosis(state,
                      "No pending modules, but project is not completed. Likely unset statuses.",
                      get_status_snapshot, <<>>, <<>>,
                      (IF unset # <<>> THEN <<Rec("set_unset_statuses")>> ELSE <<>>)
                          \o <<Rec("mark_all_completed")>>)
       ELSE IF compute_next_steps # <<>>
       THEN Diagnosis("active", "Project is active. Executable modules exist.",
                      get_status_snapshot, compute_next_steps, <<>>,
                      <<Rec("execute_ready")>>)
       ELSE Diagnosis("stalled",
                      "Pending modules exist but none are executable (dependencies not satisfied).",
                      get_status_snapshot, <<>>, diagnose_blocked_info,
                      stalled_recommendations)

----------------------------------------------------------------------------
\* MCP ENDPOINT: one action per tool of tools/call.

\* ok / ok_obj / err, and an exception that leaves the handler.
Response(tool, kind, value) == [tool |-> tool, kind |-> kind, value |-> value]
NoResponse == Response("", "none", "")

\* The ontologies: any list of distinct modules, and for each id (declared a
\* :Module or not) a list of distinct dependencies.
Graphs ==
    {gr \in [modules : NoDupSeqs(Ids, Cardinality(Ids)),
             deps : [Ids -> NoDupSeqs(Ids, MaxDeps)]] :
        SumLen(gr.deps, Ids) <= MaxEdges}

\* No read call is open.
Idle ==
    [op |-> "", pc |-> "idle", i |-> 0, j |-> 0, ready |-> <<>>, value |-> "",
     writes |-> 0, possible |-> {}]

Init ==
    /\ \E gr \in Graphs : modules = gr.modules /\ deps = gr.deps
    /\ db = [m \in Ids |-> None]
    /\ result = NoResponse
    /\ call = Idle

update_module_status(module, status) ==
    /\ IF module = "" \/ status = ""
       THEN /\ result' = Response("update_module_status", "err",
                                  "Missing required arguments: module, status")
            /\ db' = db
       ELSE /\ db' = set_db_status(db, module, status)
            /\ result' = Response("update_module_status", "ok", "Status updated")
    /\ UNCHANGED <<modules, deps, call>>

get_project_next_steps ==
    /\ result' = Response("get_project_next_steps", "ok", compute_next_steps)
    /\ UNCHANGED <<modules, deps, db, call>>

detect_dependency_cycles ==
    /\ result' = Response("detect_dependency_cycles", "ok", detect_cycles)
    /\ UNCHANGED <<modules, deps, db, call>>

compute_operational_critical_path_tool ==
    /\ LET cp == compute_operational_critical_path
       IN result' = IF cp.raised
                    THEN Response("compute_operational_critical_path", "raised",
                                  "RecursionError")
                    ELSE Response("compute_operational_critical_path", "ok",
                                  [length |-> cp.length, path |-> cp.path])
    /\ UNCHANGED <<modules, deps, db, call>>

evaluate_project_state_tool ==
    /\ result' = Response("evaluate_project_state", "ok", evaluate_project_state)
    /\ UNCHANGED <<modules, deps, db, call>>

\* Mutant of get_module_statuses: the snapshot stores a row for each module
\* that has none.
get_module_statuses_storing_unset ==
    /\ result' = Response("get_module_statuses", "ok", get_status_snapshot)
    /\ db' = [m \in Ids |->
                 IF m \in Range(get_all_modules) /\ db[m] = None
                 THEN "pending" ELSE db[m]]
    /\ UNCHANGED <<modules, deps, call>>

get_module_statuses ==
    /\ result' = Response("get_module_statuses", "ok", get_status_snapshot)
    /\ UNCHANGED <<modules, deps, db, call>>

diagnose_stall_tool ==
    /\ result' = Response("diagnose_stall", "ok", diagnose_stall)
    /\ UNCHANGED <<modules, deps, db, call>>

ReadCall ==
    \/ get_project_next_steps
    \/ detect_dependency_cycles
    \/ compute_operational_critical_path_tool
    \/ evaluate_project_state_tool
    \/ get_module_statuses
    \/ diagnose_stall_tool

\* Any caller: the handler takes whatever status string it is sent.
Next ==
    \/ \E args \in UpdateArgs : update_module_status(args[1], args[2])
    \/ ReadCall

Spec == Init /\ [][Next]_vars

\* Callers that send only the statuses of the data model: the read
\* operations over every graph and every assignment of unset, pending,
\* inProgress and completed.
NextCanonical ==
    \/ \E args \in CanonicalArgs : update_module_status(args[1], args[2])
    \/ ReadCall

SpecCanonical == Init /\ [][NextCanonical]_vars

\* Any caller, over the ontologies of at most MaxStoreEdges triples: the
\* StatusStore under every sequence of writes and reads.
InitStore == Init /\ SumLen(deps, Ids) <= MaxStoreEdges

SpecStore == InitStore /\ [][Next]_vars

\* Callers that keep to the enum and ask for the lifecycle state and the
\* diagnosis, over the ontologies of at most MaxDiagnosisEdges triples.
DiagnosisGraphs ==
    {gr \in [modules : NoDupSeqs(Ids, Cardinality(Ids)),
             deps : [Ids -> NoDupSeqs(Ids, MaxDeps)]] :
        SumLen(gr.deps, Ids) <= MaxDiagnosisEdges}

InitDiagnosis ==
    /\ \E gr \in DiagnosisGraphs : modules = gr.modules /\ deps = gr.deps
    /\ db = [m \in Ids |-> None]
    /\ result = NoResponse
    /\ call = Idle

NextDiagnosis ==
    \/ \E args \in CanonicalArgs : update_module_status(args[1], args[2])
    \/ evaluate_project_state_tool
    \/ diagnose_stall_tool

SpecDiagnosis == InitDiagnosis /\ [][NextDiagnosis]_vars

----------------------------------------------------------------------------
\* READ CALLS NEXT TO WRITERS OF OTHER PROCESSES
\* project_state.db is a file: a second server process (or any other client
\* of the file) writes to it while this process is inside a handler.  Every
\* get_db_status is a connection and a SELECT of its own, so a write of
\* another process falls between two reads of one call.  A step of a call is
\* one SELECT and the code up to the next one.

\* compute_next_steps and evaluate_project_state on one state of the table.
compute_next_steps_on(table) ==
    SelectSeq(get_all_modules,
              LAMBDA m : /\ table[m] = "pending"
                         /\ \A k \in 1..Len(get_dependencies(m)) :
                               table[get_dependencies(m)[k]] = "completed")
evaluate_project_state_on(table) ==
    IF detect_cycles THEN "blocked_by_cycle"
    ELSE IF /\ get_all_modules # <<>>
            /\ \A m \in Range(get_all_modules) : table[m] = "completed"
         THEN "completed"
    ELSE IF compute_next_steps_on(table) # <<>> THEN "active"
    ELSE "stalled"
value_on(op, table) ==
    IF op = "get_project_next_steps" THEN compute_next_steps_on(table)
    ELSE evaluate_project_state_on(table)

\* The statuses the other writers send: the two that the read calls tell
\* apart from every other value.
ConcurrentArgs == Ids \X {"pending", "completed"}

\* Positions of a call.  "all": the all(...) of evaluate_project_state, at
\* modules[i].  "status": the loop of compute_next_steps, at modules[i].
\* "deps": its all(...), at deps[j] of modules[i].  "done": returned.
\* settle(c) runs the code that reads no status: the ends of the loops.
RECURSIVE settle(_)
settle(c) ==
    IF c.pc = "all" /\ c.i > Len(get_all_modules)
    THEN IF get_all_modules # <<>>
         THEN [c EXCEPT !.pc = "done", !.value = "completed"]
         ELSE settle([c EXCEPT !.pc = "status", !.i = 1])
    ELSE IF c.pc = "status" /\ c.i > Len(get_all_modules)
    THEN [c EXCEPT !.pc = "done",
                   !.value = IF c.op = "get_project_next_steps" THEN c.ready
                             ELSE IF c.ready # <<>> THEN "active" ELSE "stalled"]
    ELSE IF c.pc = "deps" /\ c.j > Len(get_dependencies(get_all_modules[c.i]))
    THEN settle([c EXCEPT !.pc = "status", !.i = c.i + 1, !.j = 0,
                          !.ready = Append(c.ready, get_all_modules[c.i])])
    ELSE c

\* The id the next SELECT of the call asks for.
selected(c) ==
    IF c.pc = "deps" THEN get_dependencies(get_all_modules[c.i])[c.j]
    ELSE get_all_modules[c.i]

\* The call after its SELECT returned st.
after_select(c, st) ==
    IF c.pc = "all"
    THEN IF st = "completed" THEN settle([c EXCEPT !.i = c.i + 1])
         ELSE settle([c EXCEPT !.pc = "status", !.i = 1])
    ELSE IF c.pc = "status"
    THEN IF st # "pending" THEN settle([c EXCEPT !.i = c.i + 1])
         ELSE settle([c EXCEPT !.pc = "deps", !.j = 1])
    ELSE IF st = "completed" THEN settle([c EXCEPT !.j = c.j + 1])
         ELSE settle([c EXCEPT !.pc = "status", !.i = c.i + 1, !.j = 0])

\* The response of a call that has returned; no response before.
call_response(c) ==
    IF c.pc = "done" THEN Response(c.op, "ok", c.value) ELSE result

\* The handler is entered: the code up to the first SELECT.
call_start(op) ==
    /\ call.pc = "idle"
    /\ LET c == [Idle EXCEPT !.op = op, !.i = 1,
                             !.possible = {value_on(op, db)}]
           started ==
               IF op = "get_project_next_steps"
               THEN settle([c EXCEPT !.pc = "status"])
               ELSE IF detect_cycles
               THEN [c EXCEPT !.pc = "done", !.value = "blocked_by_cycle"]
               ELSE settle([c EXCEPT !.pc = "all"])
       IN /\ call' = started
          /\ result' = call_response(started)
    /\ UNCHANGED <<modules, deps, db>>

\* One get_db_status of the call, and the code up to the next one.
call_select ==
    /\ call.pc \in {"all", "status", "deps"}
    /\ LET next == after_select(call, get_db_status(selected(call)))
       IN /\ call' = next
          /\ result' = call_response(next)
    /\ UNCHANGED <<modules, deps, db>>

\* set_db_status of another process while the call is open; its response
\* goes to its own client.
concurrent_set_db_status(module, status) ==
    /\ call.pc \in {"all", "status", "deps"}
    /\ call.writes < MaxConcurrentWrites
    /\ db' = set_db_status(db, module, status)
    /\ call' = [call EXCEPT !.writes = @ + 1,
                            !.possible = @ \cup {value_on(call.op, db')}]
    /\ UNCHANGED <<modules, deps, result>>

\* Writes before the call, one call, writes of other processes during it.
NextConcurrent ==
    \/ \E args \in ConcurrentArgs :
          call.pc = "idle" /\ update_module_status(args[1], args[2])
    \/ \E op \in {"get_project_next_steps", "evaluate_project_state"} :
          call_start(op)
    \/ call_select
    \/ \E args \in ConcurrentArgs : concurrent_set_db_status(args[1], args[2])

SpecConcurrent == Init /\ [][NextConcurrent]_vars

----------------------------------------------------------------------------
\* The dependency relation, stated without a traversal.
ReadTools ==
    {"get_project_next_steps", "detect_dependency_cycles",
     "compute_operational_critical_path", "evaluate_project_state",
     "get_module_statuses", "diagnose_stall"}

ModuleSet == Range(modules)
EdgesOf(S) == UNION {{<<m, deps[m][i]>> : i \in 1..Len(deps[m])} : m \in S}
Successors(E, S) == {e[2] : e \in {x \in E : x[1] \in S}}
RECURSIVE ReachFrom(_, _)
ReachFrom(E, S) ==
    LET T == S \cup Successors(E, S) IN IF T = S THEN S ELSE ReachFrom(E, T)
\* E has a non-empty closed walk: some id reaches itself in one or more steps.
HasClosedWalk(E) == \E n \in Ids : n \in ReachFrom(E, Successors(E, {n}))

\* The edges of the declared modules only, and the edges of every id that is
\* reachable from a declared module through dependencies.
DeclaredEdges == EdgesOf(ModuleSet)
ReachableEdges == EdgesOf(ReachFrom(EdgesOf(Ids), ModuleSet))

ReadySet ==
    {m \in ModuleSet : /\ db[m] = "pending"
                       /\ \A d \in Range(deps[m]) : db[d] = "completed"}
AllCompleted == ModuleSet # {} /\ \A m \in ModuleSet : db[m] = "completed"

----------------------------------------------------------------------------
\* C1: evaluate_state returns exactly one of the four states, by priority:
\* blocked_by_cycle if the graph contains any cycle (whatever the statuses);
\* otherwise completed iff the module set is non-empty and every module is
\* completed; otherwise active iff the ready set is non-empty; otherwise
\* stalled.  The graph is the dependency relation of C2.
C1_StateByPriority ==
    result.tool = "evaluate_project_state" =>
        /\ result.kind = "ok"
        /\ result.value =
              IF HasClosedWalk(ReachableEdges) THEN "blocked_by_cycle"
              ELSE IF AllCompleted THEN "completed"
              ELSE IF ReadySet # {} THEN "active"
              ELSE "stalled"

\* C2: detect_cycles returns true iff the depends-on relation has a non-empty
\* closed walk, the relation holding the edges of every id reachable through
\* dependencies, ids absent from list_modules() included.
C2_DetectsEveryClosedWalk ==
    result.tool = "detect_dependency_cycles" =>
        /\ result.kind = "ok"
        /\ result.value = HasClosedWalk(ReachableEdges)

\* What the detector and the evaluator do compute: the closed-walk test, and
\* the priority order, on the edges of the declared modules.
DetectCyclesOnDeclaredEdges == detect_cycles = HasClosedWalk(DeclaredEdges)
StateByPriorityOnDeclaredEdges ==
    evaluate_project_state =
        IF HasClosedWalk(DeclaredEdges) THEN "blocked_by_cycle"
        ELSE IF AllCompleted THEN "completed"
        ELSE IF ReadySet # {} THEN "active"
        ELSE "stalled"

\* C3: compute_ready returns m iff m is listed by GraphSource, m is pending
\* and every declared dependency of m is completed; a pending module without
\* dependencies is always returned; a dependency without a status record (an
\* id absent from list_modules() too) keeps m out and raises no error.
C3_ReadyIffPendingAndDepsCompleted ==
    result.tool = "get_project_next_steps" =>
        /\ result.kind = "ok"
        /\ \A m \in Ids : (m \in Range(result.value)) <=> (m \in ReadySet)
        /\ \A m \in ModuleSet :
              db[m] = "pending" /\ deps[m] = <<>> => m \in Range(result.value)
        /\ \A m \in ModuleSet :
              (\E d \in Range(deps[m]) : db[d] = None) => m \notin Range(result.value)

\* A pending module whose dependency is undeclared and has no record is left
\* out, next to a pending module without dependencies that is returned.
C3_Witness ==
    /\ result.tool = "get_project_next_steps"
    /\ \E m \in ModuleSet :
          /\ db[m] = "pending"
          /\ \E d \in Range(deps[m]) : d \notin ModuleSet /\ db[d] = None
          /\ m \notin Range(result.value)
    /\ \E m \in ModuleSet :
          db[m] = "pending" /\ deps[m] = <<>> /\ m \in Range(result.value)

\* C4: whenever the graph contains a cycle, compute_ready reports the cycle
\* condition and returns no ready list, and compute_critical_path is
\* short-circuited the same way.
C4_CycleShortCircuitsReadiness ==
    /\ result.tool \in {"get_project_next_steps", "compute_operational_critical_path"}
    /\ detect_cycles
    => result.kind = "blocked_by_cycle"

\* C5: every read operation ends with a well-defined result on every graph
\* and status assignment; none fails or recurses without end.
C5_ReadsAreTotal ==
    result.tool \in ReadTools => result.kind = "ok"

\* C6: on an acyclic graph compute_critical_path returns a maximum-length
\* chain of the non-completed modules: every id of the path is a
\* non-completed module, each id is a declared dependency of the next one,
\* length is the number of ids, no longer chain exists, and the result is
\* length 0 with an empty path exactly when no module is non-completed.
\* B depends on A, C depends on B: length 3, path [A, B, C]; with A
\* completed: length 2, path [B, C].
NotCompleted == {m \in ModuleSet : db[m] # "completed"}
IsChain(p) ==
    /\ \A i \in 1..Len(p) : p[i] \in NotCompleted
    /\ \A i \in 1..(Len(p) - 1) : p[i] \in Range(deps[p[i + 1]])
Chains == {p \in NoDupSeqs(NotCompleted, Cardinality(Ids)) : IsChain(p)}
IsFixtureABC ==
    /\ ModuleSet = {"A", "B", "C"}
    /\ deps = [A |-> <<>>, B |-> <<"A">>, C |-> <<"B">>]
C6_CriticalPathIsLongestChain ==
    result.tool = "compute_operational_critical_path"
        /\ ~HasClosedWalk(DeclaredEdges) =>
        /\ result.kind = "ok"
        /\ IsChain(result.value.path)
        /\ result.value.length = Len(result.value.path)
        /\ \A c \in Chains : Len(c) <= result.value.length
        /\ (result.value.length = 0) <=> (NotCompleted = {})
        /\ (result.value.path = <<>>) <=> (NotCompleted = {})
        /\ IsFixtureABC /\ NotCompleted = {"A", "B", "C"}
              => result.value = [length |-> 3, path |-> <<"A", "B", "C">>]
        /\ IsFixtureABC /\ NotCompleted = {"B", "C"}
              => result.value = [length |-> 2, path |-> <<"B", "C">>]

\* The fixture with A completed: the path starts after the completed root.
C6_Witness ==
    /\ result.tool = "compute_operational_critical_path"
    /\ IsFixtureABC
    /\ db["A"] = "completed"
    /\ result.kind = "ok"
    /\ result.value = [length |-> 2, path |-> <<"B", "C">>]

\* C7: set_status with a status outside {pending, inProgress, completed}
\* fails and writes nothing, so every record of the StatusStore holds one of
\* the three canonical statuses.
C7_StoreHoldsCanonicalStatuses ==
    \A m \in Ids : db[m] \in Canonical \cup {None}

\* C8: set_status(id, s) is one atomic upsert: afterwards the record of id
\* is s and the record of every other id is unchanged; writers interleave as
\* whole writes, so the status of an id is the value of the last write
\* committed for it; repeating the write with the same arguments leaves the
\* store, and so every read result, as the first write left it.
C8_AtomicUpsert ==
    [][\A args \in Ids \X StatusArgs :
          result'.tool = "update_module_status"
              /\ update_module_status(args[1], args[2]) =>
              /\ db'[args[1]] = args[2]
              /\ \A other \in Ids \ {args[1]} : db'[other] = db[other]
              /\ set_db_status(db', args[1], args[2]) = db']_vars

\* A write has been answered while the store holds records of two ids.
C8_Witness ==
    /\ result.tool = "update_module_status"
    /\ result.kind = "ok"
    /\ \E m, n \in Ids : m # n /\ db[m] # None /\ db[n] # None

\* C9: no operation other than set_status changes the StatusStore: after
\* any read call every stored status, and the absence of a record, is as
\* before; no record is ever deleted.
C9_OnlySetStatusWrites ==
    [][/\ result'.tool # "update_module_status" => db' = db
       /\ \A m \in Ids : db[m] # None => db'[m] # None]_vars

\* A read has been answered over a store that holds a record, while a
\* declared module has none.
C9_Witness ==
    /\ result.tool \in ReadTools
    /\ \E m \in Ids : db[m] # None
    /\ \E m \in ModuleSet : db[m] = None

\* C10: set_status for an id GraphSource does not declare succeeds, persists
\* the record and makes the id an existing (shadow) module: list_statuses
\* then reports the id with the written status.
C10_SnapshotListsShadowModules ==
    result.tool = "get_module_statuses" =>
        \A id \in Ids :
            db[id] # None =>
                \E i \in 1..Len(result.value) :
                    result.value[i] = [module |-> id, status |-> db[id]]

\* What a status reads as in a report: the stored value, unset without a row.
ReportedStatus(id) == IF db[id] = None THEN "unset" ELSE db[id]
PendingSet == {m \in ModuleSet : db[m] = "pending"}
UnsatisfiedDeps(m) == {d \in Range(deps[m]) : db[d] # "completed"}
IsStalledDiagnosis ==
    /\ result.tool = "diagnose_stall"
    /\ result.kind = "ok"
    /\ result.value.state = "stalled"

\* C11: when diagnose_stall classifies the project as stalled and a module
\* is pending, the blocked list holds exactly the pending modules, once each,
\* and each is paired with exactly its declared dependencies whose status is
\* not completed, once each, every one with its current status, unset where
\* it has no record.  A pending depending on B, B inProgress: A is blocked
\* by B with status inProgress.
C11_BlockedListsPendingWithUnsatisfiedDeps ==
    IsStalledDiagnosis /\ PendingSet # {} =>
        LET blocked == result.value.blocked
        IN /\ {blocked[i].pending_module : i \in 1..Len(blocked)} = PendingSet
           /\ Len(blocked) = Cardinality(PendingSet)
           /\ \A i \in 1..Len(blocked) :
                 LET m == blocked[i].pending_module
                     by == blocked[i].blocked_by
                 IN /\ {by[k].module : k \in 1..Len(by)} = UnsatisfiedDeps(m)
                    /\ Len(by) = Cardinality(UnsatisfiedDeps(m))
                    /\ \A k \in 1..Len(by) :
                          by[k].status = ReportedStatus(by[k].module)
           /\ (/\ "A" \in PendingSet
               /\ deps["A"] = <<"B">>
               /\ db["B"] = "inProgress")
              => \E i \in 1..Len(blocked) :
                    blocked[i] = [pending_module |-> "A",
                                  blocked_by |-> <<[module |-> "B",
                                                    status |-> "inProgress"]>>]

\* The fixture: A pending depends on B, B inProgress, diagnosed as stalled.
C11_Witness ==
    /\ IsStalledDiagnosis
    /\ PendingSet = {"A"} /\ deps["A"] = <<"B">> /\ db["B"] = "inProgress"
    /\ Len(result.value.blocked) = 1

\* A list of ids in the fixed (lexicographic) order of ids.
Ascending(p) == \A i, j \in 1..Len(p) : i < j => Rank(p[i]) < Rank(p[j])

\* C12: the list compute_ready returns is in the fixed lexicographic order
\* of ids, so it is the same sequence for the same module set, dependencies
\* and statuses, in whatever order GraphSource enumerates the modules.
C12_ReadyListIsLexicographic ==
    result.tool = "get_project_next_steps" /\ result.kind = "ok" =>
        Ascending(result.value)

\* C13: when several non-completed modules start chains of the maximum
\* length, compute_critical_path returns a chain that starts at the first of
\* them in the fixed lexicographic order of ids, whatever the enumeration
\* order of modules and dependency edges.
C13_CriticalPathTieBreakIsLexicographic ==
    /\ result.tool = "compute_operational_critical_path"
    /\ result.kind = "ok"
    /\ ~HasClosedWalk(DeclaredEdges)
    /\ result.value.length > 0
    => \A c \in Chains :
          Len(c) = result.value.length =>
              Rank(result.value.path[1]) <= Rank(c[1])

\* The modules GraphSource lists that have themselves among their dependencies.
SelfDependent == {m \in ModuleSet : m \in Range(deps[m])}

\* C14: when a module lists itself as its own dependency, detect_cycles
\* returns true and evaluate_state returns blocked_by_cycle, whatever the
\* statuses of that module and of every other module.
C14_SelfDependencyIsACycle ==
    SelfDependent # {} =>
        /\ detect_cycles
        /\ evaluate_project_state = "blocked_by_cycle"
        /\ result.tool = "detect_dependency_cycles" =>
              result.kind = "ok" /\ result.value = TRUE
        /\ result.tool = "evaluate_project_state" =>
              result.kind = "ok" /\ result.value = "blocked_by_cycle"

\* evaluate_state has answered over a graph whose only edge is the self
\* dependency of a completed module, no other module being completed.
C14_Witness ==
    /\ result.tool = "evaluate_project_state"
    /\ result.value = "blocked_by_cycle"
    /\ \E m \in SelfDependent :
          /\ db[m] = "completed"
          /\ DeclaredEdges = {<<m, m>>}
          /\ \E n \in ModuleSet \ {m} : db[n] = "pending"

\* The number of pending modules a dependency keeps from running.
Affects(d) == Cardinality({m \in PendingSet : d \in UnsatisfiedDeps(m)})
Blockers == {d \in Ids : Affects(d) > 0}
Min(a, b) == IF a < b THEN a ELSE b

\* C16: in a stalled diagnosis with pending modules the remediation has one
\* line for each top-ranked blocker, a blocker being a (module, status) pair
\* counted over all pending modules it keeps from running; the lines are in
\* non-increasing order of that count; a line is of the 'assign a status'
\* form exactly when the blocker's status is unset, and of the 'complete it
\* or adjust the dependency' form, with the count and the status, otherwise.
C16_RemediationFollowsBlockerRanking ==
    IsStalledDiagnosis /\ PendingSet # {} =>
        LET recs == result.value.recommendations
        IN /\ Len(recs) = Min(Cardinality(Blockers), TopBlockersShown)
           /\ \A i \in 1..Len(recs) : recs[i].module \in Blockers
           /\ \A i, j \in 1..Len(recs) : i # j => recs[i].module # recs[j].module
           /\ \A i, j \in 1..Len(recs) :
                 i < j => Affects(recs[i].module) >= Affects(recs[j].module)
           /\ \A i \in 1..Len(recs) :
                 /\ recs[i].status = ReportedStatus(recs[i].module)
                 /\ recs[i].kind = "set_status" <=> recs[i].status = "unset"
                 /\ recs[i].kind \in {"set_status", "complete_or_adjust"}
                 /\ recs[i].kind = "complete_or_adjust" =>
                       recs[i].count = Affects(recs[i].module)

\* A blocker of two pending modules is ranked before a blocker of one that
\* was met first, and an unset blocker gets the 'assign a status' line.
C16_Witness ==
    /\ IsStalledDiagnosis
    /\ Len(result.value.blocked) = 2
    /\ Len(result.value.blocked[1].blocked_by) = 2
    /\ Len(result.value.recommendations) = 2
    /\ result.value.recommendations[1].module
          = result.value.blocked[1].blocked_by[2].module
    /\ result.value.recommendations[1].kind = "set_status"
    /\ result.value.recommendations[2].kind = "complete_or_adjust"
    /\ result.value.recommendations[2].count = 1

NoPendingSummary ==
    "No pending modules, but project is not completed. Likely unset statuses."

\* C17: when the state is stalled, modules exist and none is pending,
\* diagnose_stall returns an empty blocked list and a remediation that
\* suggests auditing the unassigned statuses, also when every non-completed
\* module is inProgress and none is unset.
C17_NoPendingSuggestsAuditOfUnset ==
    IsStalledDiagnosis /\ ModuleSet # {} /\ PendingSet = {} =>
        /\ result.value.blocked = <<>>
        /\ \E i \in 1..Len(result.value.recommendations) :
              result.value.recommendations[i] = Rec("set_unset_statuses")

\* C18: the state field of the Diagnosis equals what evaluate_state returns
\* on the same graph and statuses, on every branch of diagnose_stall.
C18_DiagnosisStateIsEvaluateState ==
    result.tool = "diagnose_stall" =>
        /\ result.kind = "ok"
        /\ result.value.state = evaluate_project_state
        /\ result.value.state
              \in {"blocked_by_cycle", "completed", "active", "stalled"}

\* The diagnosis took the branch that writes the state as a literal: modules
\* are ready while another pending module is blocked.
C18_Witness ==
    /\ result.tool = "diagnose_stall"
    /\ result.value.state = "active"
    /\ result.value.ready_modules # <<>>
    /\ \E m \in PendingSet : UnsatisfiedDeps(m) # {}
    /\ evaluate_project_state = "active"

\* C19: the 'no pending modules, but project is not completed' diagnosis is
\* returned only with the state stalled: when the graph is acyclic and
\* non-empty and every module is completed, the Diagnosis has the state
\* completed and does not say the project is not completed.
C19_NotCompletedSummaryOnlyWhenStalled ==
    result.tool = "diagnose_stall" /\ result.kind = "ok" =>
        /\ result.value.summary = NoPendingSummary => result.value.state = "stalled"
        /\ AllCompleted /\ ~HasClosedWalk(DeclaredEdges) =>
              /\ result.value.state = "completed"
              /\ result.value.summary # NoPendingSummary

\* C15: the value compute_ready or evaluate_state returns while set_status
\* writes go on equals the value of the operation on one state of the
\* StatusStore that existed between the start of the call and its return:
\* completed only if all modules were completed at one instant, a module
\* listed only if it was pending with all its dependencies completed at one
\* instant.
C15_ReadsSeeOneStoreState ==
    call.pc = "done" => call.value \in call.possible

\* Without a write during the call the steps of a call give the value of the
\* operation on the store.
CallWithoutWritesIsAtomic ==
    call.pc = "done" /\ call.writes = 0 => call.value = value_on(call.op, db)
ValueOnStoreIsTheOperation ==
    /\ compute_next_steps_on(db) = compute_next_steps
    /\ evaluate_project_state_on(db) = evaluate_project_state

====
